---- MODULE Spec2Model ----
(***************************************************************************)
(* Inventory defect analysis pipeline:                                     *)
(*   data_generator.py   -> raw_inventory_data.csv                         *)
(*   load_to_sql.py      -> inventory.db                                   *)
(*   run_sql_analysis.py -> inventory_analysis.db, sql_analysis_results.txt*)
(*   defect_analysis.py  -> defect_analysis_dashboard.png                  *)
(*                                                                         *)
(* A table (CSV file, DataFrame, SQL table) is a bag of rows: every        *)
(* aggregate of the pipeline counts rows, none depends on row order, and   *)
(* transaction_id is a never-null row number used only through count().    *)
(* Percentages and rounded averages are integers in hundredths (12.34 is   *)
(* 1234).  operator_id OP-00i is the integer i and the month 2024-0m is   *)
(* the integer m, so that their string order is the integer order.         *)
(***************************************************************************)
EXTENDS Integers, Sequences, FiniteSets, Bags, TLC

VARIABLES
    seedData,         \* the base columns the seeded random source draws
    csv,              \* raw_inventory_data.csv: NoFile or a bag of rows
    invDb,            \* inventory.db / inventory_transactions
    anaDb,            \* inventory_analysis.db / inventory_transactions
    resultsFile,      \* sql_analysis_results.txt: NoFile or section titles
    dashboard,        \* defect_analysis_dashboard.png has been written
    pc,               \* position of the script that is running, or "idle"
    df,               \* DataFrame of the running script
    conn,             \* run_sql_analysis.py: the connection is open
    qn,               \* run_sql_analysis.py: number of the next query
    result,           \* run_sql_analysis.py: result1 .. result7
    results,          \* run_sql_analysis.py: the results list (titles)
    integrity_score,  \* defect_analysis.py __main__ locals
    cause_summary,
    monthly_trends,
    wh_performance,
    method_analysis,
    severity,         \* create_visualizations: the severity value counts
    log,              \* console output of the current or last run
    lastExit,         \* how the last script run ended
    loadCount         \* consecutive loads of inventory.db (history)

fileVars == <<csv, invDb, anaDb, resultsFile, dashboard>>
sqlVars  == <<conn, qn, result, results>>
memVars  == <<integrity_score, cause_summary, monthly_trends, wh_performance, method_analysis, severity>>
vars == <<seedData, csv, invDb, anaDb, resultsFile, dashboard, pc, df, conn, qn,
          result, results, integrity_score, cause_summary, monthly_trends,
          wh_performance, method_analysis, severity, log, lastExit, loadCount>>

----------------------------------------------------------------------------
(* Bounds *)

MaxRecords     == 2   \* rows of a dataset in Spec
MaxGenRecords  == 2   \* rows of a dataset in SpecGen
MaxAggRecords  == 3   \* rows of a dataset in SpecAgg
MaxOps         == 12  \* operators of a dataset in SpecRank
MaxFailures    == 1   \* failing queries in one run of run_sql_analysis.py
MaxLoads       == 2   \* counted consecutive loads of inventory.db
MaxSevRecords  == 2   \* rows of a dataset in SpecSev

----------------------------------------------------------------------------
(* Program constants *)

DefectTolerance  == 5     \* abs(qty_variance) > 5
CountDiscrepancy == 50    \* abs(qty_variance) > 50
MinTransactions  == 100   \* HAVING COUNT(*) > 100
TopN             == 10    \* LIMIT 10
NumQueries       == 7     \* query1 .. query7
NumColumns       == 15    \* columns of raw_inventory_data.csv
PassThreshold    == 99    \* integrity_score >= 99

NumOperators     == 50    \* OP-001 .. OP-050

\* a file or table that does not exist, and one that holds rows
NoFile     == [exists |-> FALSE, rows |-> EmptyBag]
File(rows) == [exists |-> TRUE, rows |-> rows]

\* Python None, and a DataFrame / query result
None        == [none |-> TRUE, rows |-> <<>>]
Frame(rows) == [none |-> FALSE, rows |-> rows]

\* a nullable number: SQL NULL (read back as None) or a value
NULL   == <<>>
Num(v) == <<v>>

\* a float: nan or the fraction num/den
NaN             == [nan |-> TRUE, num |-> 0, den |-> 1]
Float(num, den) == [nan |-> FALSE, num |-> num, den |-> den]

----------------------------------------------------------------------------
(* Bags of rows *)

Abs(x) == IF x < 0 THEN -x ELSE x

RECURSIVE SumFn(_, _)
SumFn(f, S) ==
    IF S = {} THEN 0
    ELSE LET x == CHOOSE y \in S : TRUE IN f[x] + SumFn(f, S \ {x})

SeqToBag(s) ==
    [r \in {s[i] : i \in DOMAIN s} |-> Cardinality({i \in DOMAIN s : s[i] = r})]

\* number of rows of bag B that lie in the set S of its rows
BagCount(B, S) == SumFn(B, S)

\* the rows of bag B that lie in S
Restrict(B, S) == [r \in S |-> B[r]]

\* the image of bag B under the row function f
MapBag(B, f) ==
    [y \in {f[x] : x \in DOMAIN B} |-> SumFn(B, {x \in DOMAIN B : f[x] = y})]

\* sum of abs(qty_variance) over the rows of B
SumAbsVariance(B) ==
    SumFn([r \in DOMAIN B |-> B[r] * (IF r.qty_variance < 0 THEN 0 - r.qty_variance ELSE r.qty_variance)], DOMAIN B)

Len0(B) == IF DOMAIN B = {} THEN 0 ELSE BagCardinality(B)

\* the sequence of the elements of S in increasing order of key[x]
RECURSIVE SortByKey(_, _)
SortByKey(S, key) ==
    IF S = {} THEN <<>>
    ELSE LET m == CHOOSE x \in S : \A y \in S : key[x] <= key[y]
         IN <<m>> \o SortByKey(S \ {m}, key)

Range(s) == {s[i] : i \in DOMAIN s}

----------------------------------------------------------------------------
(* Rounding to two decimals, in hundredths: the integer nearest num/den *)

\* SQLite ROUND(): halves away from zero (num >= 0, den > 0)
RoundHalfAway(num, den) == (2 * num + den) \div (2 * den)

\* pandas .round(2): halves to even (num >= 0, den > 0)
RoundHalfEven(num, den) ==
    LET q == num \div den
        r == num % den
    IN IF 2 * r > den THEN q + 1
       ELSE IF 2 * r < den THEN q
       ELSE IF q % 2 = 0 THEN q ELSE q + 1

----------------------------------------------------------------------------
(* data_generator.py *)

Warehouses   == {"WH-A", "WH-B", "WH-C", "WH-D"}
EntryMethods == {"Manual", "Scanner", "System"}
DefectTypes  == {"Count Discrepancy", "Manual Entry Error", "Scanner Malfunction", "System Error"}

BaseRow(w, mo, e, a, op, m) ==
    [warehouse |-> w, month |-> mo, expected_qty |-> e, actual_qty |-> a,
     operator_id |-> op, entry_method |-> m]

qty_variance(row) == row.actual_qty - row.expected_qty

\* the tolerance test with the boundary on the wrong side
has_defect_inclusive(row) == Abs(qty_variance(row)) >= DefectTolerance

has_defect(row) == Abs(qty_variance(row)) > DefectTolerance

\* the classification with the entry method tested before the magnitude
defect_type_method_first(row) ==
    IF has_defect(row)
    THEN IF row.entry_method = "Manual" THEN "Manual Entry Error"
         ELSE IF row.entry_method = "Scanner" THEN "Scanner Malfunction"
         ELSE IF Abs(qty_variance(row)) > CountDiscrepancy THEN "Count Discrepancy"
         ELSE "System Error"
    ELSE "No Defect"

defect_type(row) ==
    IF has_defect(row)
    THEN IF Abs(qty_variance(row)) > CountDiscrepancy THEN "Count Discrepancy"
         ELSE IF row.entry_method = "Manual" THEN "Manual Entry Error"
         ELSE IF row.entry_method = "Scanner" THEN "Scanner Malfunction"
         ELSE "System Error"
    ELSE "No Defect"

\* the derived columns added to one row
DeriveRow(row) ==
    [warehouse |-> row.warehouse, month |-> row.month,
     expected_qty |-> row.expected_qty, actual_qty |-> row.actual_qty,
     operator_id |-> row.operator_id, entry_method |-> row.entry_method,
     qty_variance |-> qty_variance(row),
     has_defect |-> has_defect(row),
     defect_type |-> defect_type(row)]

\* the DataFrame built by the generator
GenerateFrame(base) == MapBag(base, [x \in DOMAIN base |-> DeriveRow(x)])

\* df.to_csv writes a boolean as the text True / False
CsvRow(row) == [row EXCEPT !.has_defect = IF row.has_defect THEN "True" ELSE "False"]

to_csv(frame) == File(MapBag(frame, [x \in DOMAIN frame |-> CsvRow(x)]))

\* pd.read_csv parses the text True / False back into a boolean column
ReadCsvRow(row) == [row EXCEPT !.has_defect = (row.has_defect = "True")]

read_csv(file) == Frame(MapBag(file.rows, [x \in DOMAIN file.rows |-> ReadCsvRow(x)]))

\* python data_generator.py
Generate ==
    /\ pc = "idle"
    /\ csv' = to_csv(GenerateFrame(seedData))
    /\ log' = {<<"DATA GENERATION COMPLETE", 0>>}
    /\ lastExit' = <<"generator", "complete">>
    /\ loadCount' = 0
    /\ UNCHANGED <<seedData, invDb, anaDb, resultsFile, dashboard, pc, df>>
    /\ UNCHANGED sqlVars
    /\ UNCHANGED memVars

----------------------------------------------------------------------------
(* The relational table *)

\* to_sql stores a boolean column as INTEGER 1 / 0
SqlRow(row) == [row EXCEPT !.has_defect = IF row.has_defect THEN 1 ELSE 0]

\* the load with if_exists='append': the new rows join the old ones
to_sql_append(frame, table) ==
    File(table.rows (+) MapBag(frame.rows, [x \in DOMAIN frame.rows |-> SqlRow(x)]))

\* df.to_sql('inventory_transactions', conn, if_exists='replace', index=False)
to_sql(frame, table) == File(MapBag(frame.rows, [x \in DOMAIN frame.rows |-> SqlRow(x)]))

\* python load_to_sql.py
LoadToSql ==
    /\ pc = "idle"
    /\ loadCount < MaxLoads
    /\ IF csv.exists
       THEN /\ invDb' = to_sql(read_csv(csv), invDb)
            /\ log' = {<<"Data loaded to SQLite database: inventory.db", 0>>}
            /\ lastExit' = <<"load_to_sql", "complete">>
            /\ loadCount' = loadCount + 1
       ELSE \* pd.read_csv raises FileNotFoundError and nothing catches it
            /\ log' = {<<"Traceback: FileNotFoundError", 0>>}
            /\ lastExit' = <<"load_to_sql", "crashed">>
            /\ UNCHANGED <<invDb, loadCount>>
    /\ UNCHANGED <<seedData, csv, anaDb, resultsFile, dashboard, pc, df>>
    /\ UNCHANGED sqlVars
    /\ UNCHANGED memVars

----------------------------------------------------------------------------
(* run_sql_analysis.py: the queries *)

\* the order in which the engine leaves rows that compare equal under
\* ORDER BY / sort_values: by ascending or by descending group key
TieOrders == {"asc", "desc"}

RankBase == NumOperators + 1

DefectTypeRank(t) ==
    CASE t = "Count Discrepancy"   -> 1
      [] t = "Manual Entry Error"  -> 2
      [] t = "No Defect"           -> 3
      [] t = "Scanner Malfunction" -> 4
      [] t = "System Error"        -> 5

WarehouseRank(w) ==
    CASE w = "WH-A" -> 1 [] w = "WH-B" -> 2 [] w = "WH-C" -> 3 [] w = "WH-D" -> 4

MethodRank(m) ==
    CASE m = "Manual" -> 1 [] m = "Scanner" -> 2 [] m = "System" -> 3

\* sort key: primary ascending, rows of equal primary in the tie order tb
OrderKey(primary, rank, tb) ==
    primary * RankBase + (IF tb = "asc" THEN rank ELSE RankBase - 1 - rank)

IsDefect(r) == r.has_defect = 1

\* SUM(CASE WHEN has_defect = 1 THEN 1 ELSE 0 END) * 100.0 / COUNT( * ), rounded
RatePct(defects, total) == RoundHalfAway(10000 * defects, total)

Query1(T) ==
    LET n == Len0(T)
        d == BagCount(T, {r \in DOMAIN T : IsDefect(r)})
    IN << [total_records     |-> n,
           total_defects     |-> IF n = 0 THEN NULL ELSE Num(d),
           defect_rate_pct   |-> IF n = 0 THEN NULL ELSE Num(RatePct(d, n)),
           accuracy_rate_pct |-> IF n = 0 THEN NULL ELSE Num(RoundHalfAway(10000 * (n - d), n))] >>

\* the shares taken of all records instead of the defective ones
Query2Rows_of_all_records(T) ==
    LET D == Restrict(T, {r \in DOMAIN T : IsDefect(r)})
    IN { LET G == Restrict(D, {r \in DOMAIN D : r.defect_type = t})
         IN [defect_type    |-> t,
             incident_count |-> Len0(G),
             avg_variance   |-> RoundHalfAway(100 * SumAbsVariance(G), Len0(G)),
             percentage     |-> RoundHalfAway(10000 * Len0(G), Len0(T))]
         : t \in {r.defect_type : r \in DOMAIN D} }

Query2Rows(T) ==
    LET D     == Restrict(T, {r \in DOMAIN T : IsDefect(r)})
        total == Len0(D)
    IN { LET G == Restrict(D, {r \in DOMAIN D : r.defect_type = t})
         IN [defect_type    |-> t,
             incident_count |-> Len0(G),
             avg_variance   |-> RoundHalfAway(100 * SumAbsVariance(G), Len0(G)),
             percentage     |-> RoundHalfAway(10000 * Len0(G), total)]
         : t \in {r.defect_type : r \in DOMAIN D} }

\* ORDER BY incident_count DESC
Query2(T, tb) ==
    LET S == Query2Rows(T)
    IN SortByKey(S, [x \in S |-> OrderKey(0 - x.incident_count, DefectTypeRank(x.defect_type), tb)])

\* COUNT(DISTINCT ...) in place of COUNT( * ): equal rows counted once
Query3Rows_distinct(T) ==
    { LET G == Restrict(T, {r \in DOMAIN T : r.warehouse = w})
          n == Cardinality(DOMAIN G)
          d == Cardinality({r \in DOMAIN G : IsDefect(r)})
      IN [warehouse          |-> w,
          total_transactions |-> n,
          defect_count       |-> d,
          defect_rate        |-> RatePct(d, n),
          accuracy_rate      |-> RoundHalfAway(10000 * (n - d), n)]
      : w \in {r.warehouse : r \in DOMAIN T} }

Query3Rows(T) ==
    { LET G == Restrict(T, {r \in DOMAIN T : r.warehouse = w})
          n == Len0(G)
          d == BagCount(G, {r \in DOMAIN G : IsDefect(r)})
      IN [warehouse          |-> w,
          total_transactions |-> n,
          defect_count       |-> d,
          defect_rate        |-> RatePct(d, n),
          accuracy_rate      |-> RoundHalfAway(10000 * (n - d), n)]
      : w \in {r.warehouse : r \in DOMAIN T} }

\* ORDER BY defect_rate ASC
Query3(T, tb) ==
    LET S == Query3Rows(T)
    IN SortByKey(S, [x \in S |-> OrderKey(x.defect_rate, WarehouseRank(x.warehouse), tb)])

Query4Rows(T) ==
    { LET G == Restrict(T, {r \in DOMAIN T : r.entry_method = m})
          n == Len0(G)
          d == BagCount(G, {r \in DOMAIN G : IsDefect(r)})
      IN [entry_method       |-> m,
          total_transactions |-> n,
          defect_count       |-> d,
          defect_rate        |-> RatePct(d, n)]
      : m \in {r.entry_method : r \in DOMAIN T} }

\* ORDER BY defect_rate DESC
Query4(T, tb) ==
    LET S == Query4Rows(T)
    IN SortByKey(S, [x \in S |-> OrderKey(0 - x.defect_rate, MethodRank(x.entry_method), tb)])

\* WHERE entry_method = 'Manual' GROUP BY operator_id
Query5Groups(T) ==
    LET M == Restrict(T, {r \in DOMAIN T : r.entry_method = "Manual"})
    IN { LET G == Restrict(M, {r \in DOMAIN M : r.operator_id = op})
             n == Len0(G)
             d == BagCount(G, {r \in DOMAIN G : IsDefect(r)})
         IN [operator_id  |-> op,
             transactions |-> n,
             errors       |-> d,
             error_rate   |-> RatePct(d, n)]
         : op \in {r.operator_id : r \in DOMAIN M} }

\* the threshold with the boundary included: HAVING COUNT( * ) >= 100
Query5Having_inclusive(T) == {x \in Query5Groups(T) : x.transactions >= MinTransactions}

\* HAVING COUNT( * ) > 100
Query5Having(T) == {x \in Query5Groups(T) : x.transactions > MinTransactions}

\* ORDER BY error_rate DESC LIMIT 10
Query5(T, tb) ==
    LET S      == Query5Having(T)
        sorted == SortByKey(S, [x \in S |-> OrderKey(0 - x.error_rate, x.operator_id, tb)])
    IN IF Len(sorted) > TopN THEN SubSeq(sorted, 1, TopN) ELSE sorted

\* the CASE with the Critical boundary included: ABS(qty_variance) >= 50
SqlSeverity_inclusive(v) ==
    IF Abs(v) >= 50 THEN "Critical"
    ELSE IF Abs(v) > 20 THEN "High"
    ELSE IF Abs(v) > 5 THEN "Medium"
    ELSE "Low"

SqlSeverity(v) ==
    IF Abs(v) > 50 THEN "Critical"
    ELSE IF Abs(v) > 20 THEN "High"
    ELSE IF Abs(v) > 5 THEN "Medium"
    ELSE "Low"

SeverityOrder(s) ==
    CASE s = "Critical" -> 1 [] s = "High" -> 2 [] s = "Medium" -> 3 [] OTHER -> 4

Query6Rows(T) ==
    LET D == Restrict(T, {r \in DOMAIN T : IsDefect(r)})
    IN { LET G == Restrict(D, {r \in DOMAIN D : SqlSeverity(r.qty_variance) = s})
         IN [severity       |-> s,
             incident_count |-> Len0(G),
             avg_variance   |-> RoundHalfAway(100 * SumAbsVariance(G), Len0(G))]
         : s \in {SqlSeverity(r.qty_variance) : r \in DOMAIN D} }

Query6(T) ==
    LET S == Query6Rows(T)
    IN SortByKey(S, [x \in S |-> SeverityOrder(x.severity)])

Query7Rows(T) ==
    { LET G == Restrict(T, {r \in DOMAIN T : r.month = mo})
          n == Len0(G)
          d == BagCount(G, {r \in DOMAIN G : IsDefect(r)})
      IN [month              |-> mo,
          total_transactions |-> n,
          defects            |-> d,
          defect_rate        |-> RatePct(d, n)]
      : mo \in {r.month : r \in DOMAIN T} }

\* ORDER BY month
Query7(T) ==
    LET S == Query7Rows(T)
    IN SortByKey(S, [x \in S |-> x.month])

\* pd.read_sql_query(query_i, conn)
Query(i, T, tb) ==
    CASE i = 1 -> Query1(T)
      [] i = 2 -> Query2(T, tb)
      [] i = 3 -> Query3(T, tb)
      [] i = 4 -> Query4(T, tb)
      [] i = 5 -> Query5(T, tb)
      [] i = 6 -> Query6(T)
      [] i = 7 -> Query7(T)

----------------------------------------------------------------------------
(* run_sql_analysis.py: the script *)

NoResults == [i \in 1..NumQueries |-> None]

\* queries of this run that raised so far
Failures == (qn - 1) - Len(results)

\* the script starts: look for the CSV file, read it
SqlStart ==
    /\ pc = "idle"
    /\ IF csv.exists
       THEN /\ df' = read_csv(csv)
            /\ log' = {<<"Loaded records", 0>>}
            /\ pc' = "sql_load"
            /\ lastExit' = <<"run_sql_analysis", "running">>
       ELSE /\ log' = {<<"ERROR: Cannot find raw_inventory_data.csv", 0>>,
                       <<"Please run the data generator first!", 0>>}
            /\ lastExit' = <<"run_sql_analysis", "aborted">>
            /\ UNCHANGED <<df, pc>>
    /\ UNCHANGED <<seedData, loadCount>>
    /\ UNCHANGED fileVars
    /\ UNCHANGED sqlVars
    /\ UNCHANGED memVars

\* sqlite3.connect(db_file); df.to_sql(..., if_exists='replace'); results = []
SqlLoad ==
    /\ pc = "sql_load"
    /\ conn' = TRUE
    /\ anaDb' = to_sql(df, anaDb)
    /\ results' = <<>>
    /\ result' = NoResults
    /\ qn' = 1
    /\ pc' = "sql_query"
    /\ log' = log \cup {<<"Data loaded into database!", 0>>}
    /\ UNCHANGED <<seedData, csv, invDb, resultsFile, dashboard, df, lastExit, loadCount>>
    /\ UNCHANGED memVars

\* run_query with the title section appended before the try block
RunQuery_title_before_try(ok) ==
    /\ pc = "sql_query"
    /\ qn <= NumQueries
    /\ IF ok
       THEN \E tb \in TieOrders :
              /\ result' = [result EXCEPT ![qn] = Frame(Query(qn, anaDb.rows, tb))]
              /\ log' = log \cup {<<"title and table", qn>>}
       ELSE /\ Failures < MaxFailures
            /\ result' = [result EXCEPT ![qn] = None]
            /\ log' = log \cup {<<"title", qn>>, <<"Error", qn>>}
    /\ results' = Append(results, qn)
    /\ qn' = qn + 1
    /\ pc' = IF qn = NumQueries THEN "sql_close" ELSE "sql_query"
    /\ UNCHANGED <<seedData, df, conn, lastExit, loadCount>>
    /\ UNCHANGED fileVars
    /\ UNCHANGED memVars

\* result_qn = run_query(title_qn, query_qn); ok: read_sql_query returns
RunQuery(ok) ==
    /\ pc = "sql_query"
    /\ qn <= NumQueries
    /\ IF ok
       THEN \E tb \in TieOrders :
              /\ result' = [result EXCEPT ![qn] = Frame(Query(qn, anaDb.rows, tb))]
              /\ results' = Append(results, qn)
              /\ log' = log \cup {<<"title and table", qn>>}
       ELSE /\ Failures < MaxFailures
            /\ result' = [result EXCEPT ![qn] = None]
            /\ log' = log \cup {<<"title", qn>>, <<"Error", qn>>}
            /\ UNCHANGED results
    /\ qn' = qn + 1
    /\ pc' = IF qn = NumQueries THEN "sql_close" ELSE "sql_query"
    /\ UNCHANGED <<seedData, df, conn, lastExit, loadCount>>
    /\ UNCHANGED fileVars
    /\ UNCHANGED memVars

SqlQuery == \E ok \in BOOLEAN : RunQuery(ok)

\* conn.close()
SqlClose ==
    /\ pc = "sql_close"
    /\ conn' = FALSE
    /\ pc' = "sql_save"
    /\ UNCHANGED <<seedData, df, qn, result, results, log, lastExit, loadCount>>
    /\ UNCHANGED fileVars
    /\ UNCHANGED memVars

\* with open(output_file, 'w') ...: f.write(''.join(results))
SqlSave ==
    /\ pc = "sql_save"
    /\ resultsFile' = File(results)
    /\ pc' = "sql_summary"
    /\ log' = log \cup {<<"All results saved", 0>>}
    /\ UNCHANGED <<seedData, csv, invDb, anaDb, dashboard, df, lastExit, loadCount>>
    /\ UNCHANGED sqlVars
    /\ UNCHANGED memVars

\* f"{result1['total_defects'][0]:,}" raises TypeError when the value is None
SummaryRaises ==
    /\ ~result[1].none
    /\ result[1].rows[1].total_defects = NULL

\* summary of key findings, then the script ends
SqlSummary ==
    /\ pc = "sql_summary"
    /\ IF SummaryRaises
       THEN /\ log' = log \cup {<<"Traceback: TypeError", 0>>}
            /\ lastExit' = <<"run_sql_analysis", "crashed">>
       ELSE /\ log' = log \cup {<<"SQL ANALYSIS COMPLETE!", 0>>}
            /\ lastExit' = <<"run_sql_analysis", "complete">>
    /\ pc' = "idle"
    /\ df' = None
    /\ qn' = 0
    /\ result' = NoResults
    /\ results' = <<>>
    /\ UNCHANGED <<seedData, conn, loadCount>>
    /\ UNCHANGED fileVars
    /\ UNCHANGED memVars

----------------------------------------------------------------------------
(* defect_analysis.py: the aggregates *)

\* df.isnull().sum().sum(): the generator fills every column of every row
null_cells(rows) == SumFn([r \in DOMAIN rows |-> 0], DOMAIN rows)

\* numpy division: 0/0 is nan, it does not raise
validate_data_integrity(rows) ==
    LET total_records == Len0(rows)
        total_cells   == total_records * NumColumns
    IN IF total_cells = 0 THEN NaN
       ELSE Float((total_cells - null_cells(rows)) * 100, total_cells)

\* integrity_score >= 99; a comparison with nan is False
IntegrityPassed(score) == ~score.nan /\ score.num >= PassThreshold * score.den

\* count / total * 100, .round(2)
PctRound(count, total) == RoundHalfEven(10000 * count, total)

CauseRows(rows) ==
    LET defects == Restrict(rows, {r \in DOMAIN rows : r.has_defect = TRUE})
    IN { LET G == Restrict(defects, {r \in DOMAIN defects : r.defect_type = t})
         IN [defect_type    |-> t,
             incident_count |-> Len0(G),
             avg_variance   |-> Float(SumAbsVariance(G), Len0(G)),
             percentage     |-> PctRound(Len0(G), Len0(defects))]
         : t \in {r.defect_type : r \in DOMAIN defects} }

\* groupby('defect_type') ... .sort_values('incident_count', ascending=False)
root_cause_analysis(rows, tb) ==
    LET S == CauseRows(rows)
    IN SortByKey(S, [x \in S |-> OrderKey(0 - x.incident_count, DefectTypeRank(x.defect_type), tb)])

\* cause_summary.index[0] raises IndexError on an empty summary
RootCauseRaises(rows) == CauseRows(rows) = {}

analyze_trends(rows) ==
    LET S == { LET G == Restrict(rows, {r \in DOMAIN rows : r.month = mo})
                   n == Len0(G)
                   d == BagCount(G, {r \in DOMAIN G : r.has_defect = TRUE})
               IN [month              |-> mo,
                   total_transactions |-> n,
                   total_defects      |-> d,
                   defect_rate        |-> PctRound(d, n)]
               : mo \in {r.month : r \in DOMAIN rows} }
    IN SortByKey(S, [x \in S |-> x.month])

\* monthly_trends.iloc[0] raises IndexError on an empty frame
TrendsRaises(rows) == DOMAIN rows = {}

warehouse_performance(rows) ==
    LET S == { LET G == Restrict(rows, {r \in DOMAIN rows : r.warehouse = w})
                   n == Len0(G)
                   d == BagCount(G, {r \in DOMAIN G : r.has_defect = TRUE})
               IN [warehouse          |-> w,
                   total_transactions |-> n,
                   defect_count       |-> d,
                   avg_variance       |-> Float(SumAbsVariance(G), n),
                   defect_rate        |-> PctRound(d, n),
                   accuracy_rate      |-> 10000 - PctRound(d, n)]
               : w \in {r.warehouse : r \in DOMAIN rows} }
    IN SortByKey(S, [x \in S |-> WarehouseRank(x.warehouse)])

\* wh_performance['defect_rate'].idxmin() raises ValueError on an empty frame
WarehouseRaises(rows) == DOMAIN rows = {}

entry_method_analysis(rows) ==
    LET S == { LET G == Restrict(rows, {r \in DOMAIN rows : r.entry_method = m})
                   n == Len0(G)
                   d == BagCount(G, {r \in DOMAIN G : r.has_defect = TRUE})
               IN [entry_method       |-> m,
                   total_transactions |-> n,
                   defect_count       |-> d,
                   defect_rate        |-> PctRound(d, n)]
               : m \in {r.entry_method : r \in DOMAIN rows} }
    IN SortByKey(S, [x \in S |-> MethodRank(x.entry_method)])

SeverityBands == {"Low", "Medium", "High", "Critical"}

\* the bins with a last edge below the largest variance: bins=[0, 10, 25, 50, 100]
MemSeverity_short_bins(v) ==
    IF Abs(v) > 0 /\ Abs(v) <= 10 THEN "Low"
    ELSE IF Abs(v) > 10 /\ Abs(v) <= 25 THEN "Medium"
    ELSE IF Abs(v) > 25 /\ Abs(v) <= 50 THEN "High"
    ELSE IF Abs(v) > 50 /\ Abs(v) <= 100 THEN "Critical"
    ELSE "NaN"

\* pd.cut(abs(qty_variance), bins=[0, 10, 25, 50, 500]): right-closed bins,
\* a value outside every bin has no band
MemSeverity(v) ==
    IF Abs(v) > 0 /\ Abs(v) <= 10 THEN "Low"
    ELSE IF Abs(v) > 10 /\ Abs(v) <= 25 THEN "Medium"
    ELSE IF Abs(v) > 25 /\ Abs(v) <= 50 THEN "High"
    ELSE IF Abs(v) > 50 /\ Abs(v) <= 500 THEN "Critical"
    ELSE "NaN"

\* severity.value_counts(): one count per band
severity_counts(rows) ==
    LET defects == Restrict(rows, {r \in DOMAIN rows : r.has_defect = TRUE})
    IN [b \in SeverityBands |-> BagCount(defects, {r \in DOMAIN defects : MemSeverity(r.qty_variance) = b})]

NoSeverity == [b \in SeverityBands |-> 0]

----------------------------------------------------------------------------
(* defect_analysis.py: the script *)

MemReset ==
    /\ integrity_score' = NaN
    /\ cause_summary' = None
    /\ monthly_trends' = None
    /\ wh_performance' = None
    /\ method_analysis' = None
    /\ severity' = NoSeverity

\* an exception that nothing catches ends the script
MemCrash(error) ==
    /\ log' = log \cup {<<error, 0>>}
    /\ lastExit' = <<"defect_analysis", "crashed">>
    /\ pc' = "idle"
    /\ df' = None
    /\ MemReset

\* the script starts: read the CSV file
MemStart ==
    /\ pc = "idle"
    /\ IF csv.exists
       THEN /\ df' = read_csv(csv)
            /\ log' = {<<"Loaded records", 0>>}
            /\ pc' = "mem_integrity"
            /\ lastExit' = <<"defect_analysis", "running">>
       ELSE /\ log' = {<<"ERROR: raw_inventory_data.csv not found!", 0>>,
                       <<"Please run data_generator.py first", 0>>}
            /\ lastExit' = <<"defect_analysis", "aborted">>
            /\ UNCHANGED <<df, pc>>
    /\ UNCHANGED <<seedData, loadCount>>
    /\ UNCHANGED fileVars
    /\ UNCHANGED sqlVars
    /\ UNCHANGED memVars

\* integrity_score = validate_data_integrity(df)
MemIntegrity ==
    /\ pc = "mem_integrity"
    /\ integrity_score' = validate_data_integrity(df.rows)
    /\ log' = log \cup {IF IntegrityPassed(validate_data_integrity(df.rows))
                        THEN <<"PASSED", 0>> ELSE <<"WARNING", 0>>}
    /\ pc' = "mem_root_cause"
    /\ UNCHANGED <<seedData, df, lastExit, loadCount, cause_summary, monthly_trends,
                   wh_performance, method_analysis, severity>>
    /\ UNCHANGED fileVars
    /\ UNCHANGED sqlVars

\* cause_summary = root_cause_analysis(df)
MemRootCause ==
    /\ pc = "mem_root_cause"
    /\ IF RootCauseRaises(df.rows)
       THEN MemCrash("Traceback: IndexError")
       ELSE /\ \E tb \in TieOrders :
                 cause_summary' = Frame(root_cause_analysis(df.rows, tb))
            /\ log' = log \cup {<<"ROOT CAUSE ANALYSIS", 0>>}
            /\ pc' = "mem_trends"
            /\ UNCHANGED <<df, lastExit, integrity_score, monthly_trends,
                           wh_performance, method_analysis, severity>>
    /\ UNCHANGED <<seedData, loadCount>>
    /\ UNCHANGED fileVars
    /\ UNCHANGED sqlVars

\* monthly_trends = analyze_trends(df)
MemTrends ==
    /\ pc = "mem_trends"
    /\ IF TrendsRaises(df.rows)
       THEN MemCrash("Traceback: IndexError")
       ELSE /\ monthly_trends' = Frame(analyze_trends(df.rows))
            /\ log' = log \cup {<<"DEFECT TREND ANALYSIS", 0>>}
            /\ pc' = "mem_warehouse"
            /\ UNCHANGED <<df, lastExit, integrity_score, cause_summary,
                           wh_performance, method_analysis, severity>>
    /\ UNCHANGED <<seedData, loadCount>>
    /\ UNCHANGED fileVars
    /\ UNCHANGED sqlVars

\* wh_performance = warehouse_performance(df)
MemWarehouse ==
    /\ pc = "mem_warehouse"
    /\ IF WarehouseRaises(df.rows)
       THEN MemCrash("Traceback: ValueError")
       ELSE /\ wh_performance' = Frame(warehouse_performance(df.rows))
            /\ log' = log \cup {<<"WAREHOUSE PERFORMANCE COMPARISON", 0>>}
            /\ pc' = "mem_entry"
            /\ UNCHANGED <<df, lastExit, integrity_score, cause_summary,
                           monthly_trends, method_analysis, severity>>
    /\ UNCHANGED <<seedData, loadCount>>
    /\ UNCHANGED fileVars
    /\ UNCHANGED sqlVars

\* method_analysis = entry_method_analysis(df)
MemEntry ==
    /\ pc = "mem_entry"
    /\ method_analysis' = Frame(entry_method_analysis(df.rows))
    /\ log' = log \cup {<<"ENTRY METHOD IMPACT ANALYSIS", 0>>}
    /\ pc' = "mem_viz"
    /\ UNCHANGED <<seedData, df, lastExit, loadCount, integrity_score, cause_summary,
                   monthly_trends, wh_performance, severity>>
    /\ UNCHANGED fileVars
    /\ UNCHANGED sqlVars

\* create_visualizations(df, cause_summary, monthly_trends, wh_performance)
MemViz ==
    /\ pc = "mem_viz"
    /\ severity' = severity_counts(df.rows)
    /\ dashboard' = TRUE
    /\ log' = log \cup {<<"Saved: defect_analysis_dashboard.png", 0>>}
    /\ pc' = "mem_done"
    /\ UNCHANGED <<seedData, csv, invDb, anaDb, resultsFile, df, lastExit, loadCount,
                   integrity_score, cause_summary, monthly_trends, wh_performance,
                   method_analysis>>
    /\ UNCHANGED sqlVars

\* print ANALYSIS COMPLETE!, the script ends
MemDone ==
    /\ pc = "mem_done"
    /\ log' = log \cup {<<"ANALYSIS COMPLETE!", 0>>}
    /\ lastExit' = <<"defect_analysis", "complete">>
    /\ pc' = "idle"
    /\ df' = None
    /\ MemReset
    /\ UNCHANGED <<seedData, loadCount>>
    /\ UNCHANGED fileVars
    /\ UNCHANGED sqlVars

----------------------------------------------------------------------------
(* Datasets and specifications *)

\* the bags of at most n rows drawn from kinds
Datasets(kinds, n) == {SeqToBag(s) : s \in UNION {[1..k -> kinds] : k \in 0..n}}

SmallKinds ==
    {BaseRow("WH-A", 1, 100, a, 1, m) : a \in {103, 110}, m \in {"Manual", "Scanner"}}

\* nothing has run yet
InitWith(data) ==
    /\ seedData = data
    /\ csv = NoFile
    /\ invDb = NoFile
    /\ anaDb = NoFile
    /\ resultsFile = NoFile
    /\ dashboard = FALSE
    /\ pc = "idle"
    /\ df = None
    /\ conn = FALSE
    /\ qn = 0
    /\ result = NoResults
    /\ results = <<>>
    /\ integrity_score = NaN
    /\ cause_summary = None
    /\ monthly_trends = None
    /\ wh_performance = None
    /\ method_analysis = None
    /\ severity = NoSeverity
    /\ log = {}
    /\ lastExit = <<"none", "none">>
    /\ loadCount = 0

Init == \E data \in Datasets(SmallKinds, MaxRecords) : InitWith(data)

SqlScript == SqlStart \/ SqlLoad \/ SqlQuery \/ SqlClose \/ SqlSave \/ SqlSummary

MemScript == MemStart \/ MemIntegrity \/ MemRootCause \/ MemTrends \/ MemWarehouse
             \/ MemEntry \/ MemViz \/ MemDone

Next == Generate \/ LoadToSql \/ SqlScript \/ MemScript

Spec == Init /\ [][Next]_vars

----------------------------------------------------------------------------
(* SpecGen: the generator alone, on rows around the classification bounds *)

GenVariances == {-60, -51, -50, -6, -5, 0, 3, 5, 6, 10, 50, 51, 60}

GenKinds ==
    {BaseRow("WH-A", 1, e, e + v, 1, m) :
        e \in {100, 200}, v \in GenVariances, m \in EntryMethods}

InitGen == \E data \in Datasets(GenKinds, MaxGenRecords) : InitWith(data)

NextGen == Generate

SpecGen == InitGen /\ [][NextGen]_vars

\* C1: in the generated file a row is labelled No Defect exactly when its
\* defect flag is false, and a defective row carries the label of the first
\* rule that applies: |variance| > 50 Count Discrepancy, else Manual ->
\* Manual Entry Error, else Scanner -> Scanner Malfunction, else System Error.
C1_DefectTypeByPriority ==
    \A r \in DOMAIN csv.rows :
        LET v == r.actual_qty - r.expected_qty
            mag == IF v < 0 THEN 0 - v ELSE v
        IN /\ (r.defect_type = "No Defect") <=> (r.has_defect = "False")
           /\ r.has_defect = "True" =>
                /\ r.defect_type \in DefectTypes
                /\ (mag > 50) => r.defect_type = "Count Discrepancy"
                /\ (mag <= 50 /\ r.entry_method = "Manual") => r.defect_type = "Manual Entry Error"
                /\ (mag <= 50 /\ r.entry_method = "Scanner") => r.defect_type = "Scanner Malfunction"
                /\ (mag <= 50 /\ r.entry_method = "System") => r.defect_type = "System Error"

\* the scenario expected=100, actual=160, Scanner is in the file as a Count Discrepancy
C1_Witness ==
    /\ csv.exists
    /\ \E r \in DOMAIN csv.rows :
         /\ r.expected_qty = 100 /\ r.actual_qty = 160 /\ r.entry_method = "Scanner"
         /\ r.has_defect = "True" /\ r.defect_type = "Count Discrepancy"

\* C2: in the generated file qty_variance is actual - expected and the
\* defect flag is set exactly when |actual - expected| > 5.
C2_DefectFlagIffOverTolerance ==
    \A r \in DOMAIN csv.rows :
        /\ r.qty_variance = r.actual_qty - r.expected_qty
        /\ (r.has_defect = "True") <=>
              (r.actual_qty - r.expected_qty > 5 \/ r.expected_qty - r.actual_qty > 5)
        /\ r.has_defect \in {"True", "False"}

\* a file with a row of variance 5 (no defect) and a row of variance -6 (defect)
C2_Witness ==
    /\ csv.exists
    /\ \E r \in DOMAIN csv.rows : r.qty_variance = 5 /\ r.has_defect = "False"
    /\ \E r \in DOMAIN csv.rows : r.qty_variance = -6 /\ r.has_defect = "True"

----------------------------------------------------------------------------
(* Spec: error handling and loading *)

TitlePrinted(i) == <<"title and table", i>> \in log \/ <<"title", i>> \in log

\* C3: when one aggregate of a report run fails, the failure is logged, only
\* that aggregate is skipped, the remaining aggregates still run and the run
\* reaches completion, in run_sql_analysis.py and in defect_analysis.py.
C3_AggregateFailureIsIsolated ==
    /\ (lastExit[1] = "run_sql_analysis" /\ lastExit[2] \in {"complete", "crashed"}
        /\ \E i \in 1..NumQueries : <<"Error", i>> \in log)
          => /\ lastExit[2] = "complete"
             /\ \A j \in 1..NumQueries : TitlePrinted(j)
    /\ lastExit[1] = "defect_analysis" => lastExit[2] # "crashed"

\* C4: on a dataset of zero records the integrity check reports 100 % and a
\* "no records" notice, and no aggregate raises.
C4_EmptyDatasetTolerated ==
    (csv.exists /\ DOMAIN csv.rows = {}) =>
        /\ lastExit[2] # "crashed"
        /\ pc = "mem_root_cause" =>
              /\ ~integrity_score.nan
              /\ integrity_score.num = 100 * integrity_score.den
              /\ <<"no records", 0>> \in log

InstructionPrinted ==
    \/ <<"Please run the data generator first!", 0>> \in log
    \/ <<"Please run data_generator.py first", 0>> \in log

\* C6: every stage that reads the interchange file, run while the file is
\* absent, prints the instruction to run the generator and aborts, and no
\* table, report or dashboard is written.
C6_MissingInputReported ==
    (~csv.exists /\ lastExit[1] \in {"load_to_sql", "run_sql_analysis", "defect_analysis"}) =>
        /\ pc = "idle"
        /\ lastExit[2] \in {"aborted", "crashed"}
        /\ InstructionPrinted
        /\ ~invDb.exists /\ ~anaDb.exists /\ ~resultsFile.exists /\ ~dashboard

\* the table a file's rows make: the has_defect text as 1 / 0
TableOf(file) ==
    LET f == [r \in DOMAIN file.rows |->
                 [r EXCEPT !.has_defect = IF r.has_defect = "True" THEN 1 ELSE 0]]
    IN [exists |-> TRUE,
        rows |-> [y \in {f[r] : r \in DOMAIN file.rows} |->
                     SumFn(file.rows, {r \in DOMAIN file.rows : f[r] = y})]]

\* C7: a load writes exactly the rows of the file, whatever the table held,
\* and a load into a table that already holds a load of the file leaves the
\* table as it was (in inventory.db and in inventory_analysis.db).
C7_LoadIsIdempotent ==
    [][ /\ invDb' # invDb => invDb' = TableOf(csv)
        /\ anaDb' # anaDb => anaDb' = TableOf(csv)
        /\ (invDb.exists /\ loadCount' = loadCount + 1) => invDb' = invDb
        /\ (anaDb.exists /\ pc = "sql_load") => anaDb' = anaDb ]_vars

\* inventory.db has been loaded twice in succession from a file with rows
C7_Witness ==
    /\ loadCount = 2
    /\ invDb.exists
    /\ DOMAIN invDb.rows # {}
    /\ \E r \in DOMAIN invDb.rows : r.has_defect = 1

----------------------------------------------------------------------------
(* SpecAgg: the two report scripts on datasets of several warehouses,     *)
(* entry methods and defect types; every query returns                     *)

AggKinds ==
    {BaseRow(w, 1, 100, a, 1, m) :
        w \in {"WH-A", "WH-B"}, a \in {100, 110, 160}, m \in EntryMethods}

InitAgg == \E data \in Datasets(AggKinds, MaxAggRecords) : InitWith(data)

NextAgg ==
    \/ Generate
    \/ SqlStart \/ SqlLoad \/ RunQuery(TRUE) \/ SqlClose \/ SqlSave \/ SqlSummary
    \/ MemScript

SpecAgg == InitAgg /\ [][NextAgg]_vars

\* number of defective records of the interchange file
FileDefects == SumFn(csv.rows, {r \in DOMAIN csv.rows : r.has_defect = "True"})

\* number of records of the interchange file
FileRecords == SumFn(csv.rows, DOMAIN csv.rows)

SumPercentage(rows) == SumFn([i \in DOMAIN rows |-> rows[i].percentage], DOMAIN rows)

SumIncidents(rows) == SumFn([i \in DOMAIN rows |-> rows[i].incident_count], DOMAIN rows)

\* the shares sum to 100.00 within half a hundredth per row
SharesSumTo100(rows) ==
    LET diff == SumPercentage(rows) - 10000
    IN 2 * (IF diff < 0 THEN 0 - diff ELSE diff) <= Len(rows)

CountsAndLabels(rows) ==
    /\ SumIncidents(rows) = FileDefects
    /\ \A i \in DOMAIN rows : rows[i].defect_type # "No Defect"
    /\ \A i, j \in DOMAIN rows : i # j => rows[i].defect_type # rows[j].defect_type

\* C8 as stated: in every root-cause summary the rounded shares sum to 100
\* within the rounding epsilon, the incident counts sum to the number of
\* defective records and No Defect is not a row.
C8_SharesSumTo100_AsStated ==
    /\ ~result[2].none => SharesSumTo100(result[2].rows) /\ CountsAndLabels(result[2].rows)
    /\ ~cause_summary.none => SharesSumTo100(cause_summary.rows) /\ CountsAndLabels(cause_summary.rows)

\* C8 amended: the same, the sum of the shares being required only when at
\* least one record is defective (with none the summary of query2 has no row
\* and its shares sum to 0).
C8_SharesSumTo100 ==
    /\ ~result[2].none =>
          /\ FileDefects > 0 => SharesSumTo100(result[2].rows)
          /\ CountsAndLabels(result[2].rows)
    /\ ~cause_summary.none =>
          /\ FileDefects > 0 => SharesSumTo100(cause_summary.rows)
          /\ CountsAndLabels(cause_summary.rows)

\* query2 has returned three defect types of one record each: 3 x 33.33
C8_Witness ==
    /\ ~result[2].none
    /\ Len(result[2].rows) = 3
    /\ SumPercentage(result[2].rows) = 9999
    /\ FileDefects = 3

WarehousePartition(rows) ==
    /\ SumFn([i \in DOMAIN rows |-> rows[i].total_transactions], DOMAIN rows) = FileRecords
    /\ SumFn([i \in DOMAIN rows |-> rows[i].defect_count], DOMAIN rows) = FileDefects
    /\ \A i, j \in DOMAIN rows : i # j => rows[i].warehouse # rows[j].warehouse

\* C9: in the warehouse view of both scripts the transaction counts sum to
\* the number of records and the defect counts to the number of defects.
C9_WarehouseCountsPartition ==
    /\ ~result[3].none => WarehousePartition(result[3].rows)
    /\ ~wh_performance.none => WarehousePartition(wh_performance.rows)

\* query3 has returned two warehouses, one of them with two equal records
C9_Witness ==
    /\ ~result[3].none
    /\ Len(result[3].rows) = 2
    /\ \E i \in 1..2 : result[3].rows[i].total_transactions = 2
    /\ FileDefects > 0

SortedByCountThenName(rows) ==
    \A i, j \in DOMAIN rows :
        i < j => \/ rows[i].incident_count > rows[j].incident_count
                 \/ /\ rows[i].incident_count = rows[j].incident_count
                    /\ DefectTypeRank(rows[i].defect_type) < DefectTypeRank(rows[j].defect_type)

\* C10: the root-cause rows are in descending order of incident count and
\* rows of equal count are in ascending order of defect-type name, in
\* defect_analysis.py and in query2.
C10_RootCauseOrder ==
    /\ ~result[2].none => SortedByCountThenName(result[2].rows)
    /\ ~cause_summary.none => SortedByCountThenName(cause_summary.rows)

----------------------------------------------------------------------------
(* SpecRank: run_sql_analysis.py on datasets of many operators, each with  *)
(* more or fewer than 100 Manual-entry records; every query returns        *)

\* the records of one operator: Manual without defect, Manual with defect,
\* Scanner with defect
Profiles ==
    << [manual_ok |-> 0,   manual_defect |-> 100, scanner_defect |-> 50],
       [manual_ok |-> 101, manual_defect |-> 0,   scanner_defect |-> 40],
       [manual_ok |-> 0,   manual_defect |-> 101, scanner_defect |-> 0],
       [manual_ok |-> 90,  manual_defect |-> 30,  scanner_defect |-> 0] >>

OperatorRows(op, p) ==
    LET counts == (BaseRow("WH-A", 1, 100, 100, op, "Manual")  :> Profiles[p].manual_ok)
               @@ (BaseRow("WH-A", 1, 100, 110, op, "Manual")  :> Profiles[p].manual_defect)
               @@ (BaseRow("WH-A", 1, 100, 110, op, "Scanner") :> Profiles[p].scanner_defect)
    IN Restrict(counts, {r \in DOMAIN counts : counts[r] > 0})

\* the profile of operator op when cnt[p] operators have profile p and the
\* operators are numbered profile by profile
ProfileOf(op, cnt) ==
    CHOOSE p \in DOMAIN Profiles :
        /\ SumFn(cnt, 1..(p - 1)) < op
        /\ op <= SumFn(cnt, 1..p)

RECURSIVE RankRows(_, _)
RankRows(n, cnt) ==
    IF n = 0 THEN EmptyBag
    ELSE RankRows(n - 1, cnt) (+) OperatorRows(n, ProfileOf(n, cnt))

RankDatasets ==
    {RankRows(SumFn(cnt, DOMAIN Profiles), cnt) :
        cnt \in {c \in [DOMAIN Profiles -> 0..MaxOps] : SumFn(c, DOMAIN Profiles) \in 1..MaxOps}}

InitRank == \E data \in RankDatasets : InitWith(data)

NextRank ==
    \/ Generate
    \/ SqlStart \/ SqlLoad \/ RunQuery(TRUE) \/ SqlClose \/ SqlSave \/ SqlSummary

SpecRank == InitRank /\ [][NextRank]_vars

ManualRecords(op) ==
    SumFn(csv.rows, {r \in DOMAIN csv.rows : r.entry_method = "Manual" /\ r.operator_id = op})

ManualErrors(op) ==
    SumFn(csv.rows, {r \in DOMAIN csv.rows :
                        r.entry_method = "Manual" /\ r.operator_id = op /\ r.has_defect = "True"})

\* errors * 100 / records to two decimals, in hundredths
ManualErrorRate(op) == (20000 * ManualErrors(op) + ManualRecords(op)) \div (2 * ManualRecords(op))

FileOperators == {r.operator_id : r \in DOMAIN csv.rows}

Ranked == {result[5].rows[i].operator_id : i \in DOMAIN result[5].rows}

\* C5: the operator ranking counts Manual-entry records only, holds only
\* operators with more than 100 of them, is in descending order of error
\* rate, has at most 10 rows, and no operator with more than 100 Manual
\* records that was left out has a higher error rate than a row.
C5_OperatorRanking ==
    ~result[5].none =>
        LET rows == result[5].rows
        IN /\ Len(rows) <= 10
           /\ \A i \in DOMAIN rows :
                /\ ManualRecords(rows[i].operator_id) > 100
                /\ rows[i].transactions = ManualRecords(rows[i].operator_id)
                /\ rows[i].errors = ManualErrors(rows[i].operator_id)
                /\ rows[i].error_rate = ManualErrorRate(rows[i].operator_id)
           /\ \A i, j \in DOMAIN rows :
                /\ i < j => rows[i].error_rate >= rows[j].error_rate
                /\ i # j => rows[i].operator_id # rows[j].operator_id
           /\ \A op \in FileOperators \ Ranked :
                ManualRecords(op) > 100 =>
                    /\ Len(rows) = 10
                    /\ \A i \in DOMAIN rows : rows[i].error_rate >= ManualErrorRate(op)

\* ten operators are ranked, one with more than 100 Manual records is left
\* out, and one with exactly 100 Manual records, all in error, is excluded
C5_Witness ==
    /\ ~result[5].none
    /\ Len(result[5].rows) = 10
    /\ \E op \in FileOperators \ Ranked : ManualRecords(op) > 100
    /\ \E op \in FileOperators \ Ranked : ManualRecords(op) = 100 /\ ManualErrors(op) = 100
    /\ \E i \in 1..10 : result[5].rows[i].error_rate < 10000

----------------------------------------------------------------------------
(* SpecSev: the two report scripts on records around the severity cut     *)
(* points and at the ends of the quantity range 1..499; every query        *)
(* returns                                                                 *)

SevVariances == {-60, -23, -8, 0, 6, 10, 11, 20, 21, 25, 26, 50, 51}

SevKinds ==
    {BaseRow("WH-A", 1, 100, 100 + v, 1, m) : v \in SevVariances, m \in {"Manual", "Scanner"}}
    \cup {BaseRow("WH-A", 1, 1, 499, 1, m) : m \in {"Manual", "Scanner"}}
    \cup {BaseRow("WH-A", 1, 499, 1, 1, m) : m \in {"Manual", "Scanner"}}

InitSev == \E data \in Datasets(SevKinds, MaxSevRecords) : InitWith(data)

NextSev ==
    \/ Generate
    \/ SqlStart \/ SqlLoad \/ RunQuery(TRUE) \/ SqlClose \/ SqlSave \/ SqlSummary
    \/ MemScript

SpecSev == InitSev /\ [][NextSev]_vars

DefectiveRows == {r \in DOMAIN csv.rows : r.has_defect = "True"}

Magnitude(r) == IF r.qty_variance < 0 THEN 0 - r.qty_variance ELSE r.qty_variance

\* defective records of the file that the in-memory bins put in band b
MemBandCount(b) ==
    SumFn(csv.rows, {r \in DefectiveRows : MemSeverity(r.qty_variance) = b})

\* defective records of the file that the CASE of query6 puts in band b
SqlBandCount(b) ==
    SumFn(csv.rows, {r \in DefectiveRows : SqlSeverity(r.qty_variance) = b})

\* incident_count of band b in the result of query6, 0 without a row
Query6Count(b) ==
    LET rows == result[6].rows
    IN SumFn([i \in DOMAIN rows |-> IF rows[i].severity = b THEN rows[i].incident_count ELSE 0],
             DOMAIN rows)

\* each path counts in every band the records the other path puts there
PathsAgree ==
    /\ pc = "mem_done" => \A b \in SeverityBands : severity[b] = SqlBandCount(b)
    /\ ~result[6].none => \A b \in SeverityBands : Query6Count(b) = MemBandCount(b)

\* C11 as stated: the two severity bandings differ only in the High/Medium
\* cut point: when no defective record has |variance| in 21..25, both paths
\* assign every defective record the same band.
C11_SeverityAgreesOutside21to25 ==
    (\A r \in DefectiveRows : Magnitude(r) \notin 21..25) => PathsAgree

\* C11 amended: the bandings differ in the Low/Medium cut point (10 against
\* 5) and in the Medium/High cut point (25 against 20): when no defective
\* record has |variance| in 6..10 or in 21..25, both paths assign every
\* defective record the same band.
C11_SeverityAgreesOutsideCutRanges ==
    (\A r \in DefectiveRows : Magnitude(r) \notin 6..10 /\ Magnitude(r) \notin 21..25)
        => PathsAgree

\* the in-memory path has banded a record of variance 20 and one of 26
C11_Witness ==
    /\ pc = "mem_done"
    /\ \E r \in DefectiveRows : Magnitude(r) = 20
    /\ \E r \in DefectiveRows : Magnitude(r) = 26
    /\ severity["Medium"] = 1
    /\ severity["High"] = 1

CountDiscrepancies ==
    SumFn(csv.rows, {r \in DOMAIN csv.rows : r.defect_type = "Count Discrepancy"})

\* C12: in both severity paths the Critical band holds exactly the records
\* labelled Count Discrepancy; every defective record falls in a band of
\* the in-memory bins; the Low band of query6 is never populated.
C12_CriticalIsCountDiscrepancy ==
    /\ pc = "mem_done" =>
          /\ severity["Critical"] = CountDiscrepancies
          /\ SumFn(severity, SeverityBands) = FileDefects
    /\ ~result[6].none =>
          /\ Query6Count("Critical") = CountDiscrepancies
          /\ \A i \in DOMAIN result[6].rows :
                /\ result[6].rows[i].severity # "Low"
                /\ result[6].rows[i].incident_count > 0
          /\ SumFn([i \in DOMAIN result[6].rows |-> result[6].rows[i].incident_count],
                   DOMAIN result[6].rows) = FileDefects

\* the in-memory path has banded a record of the largest variance, 498,
\* and one of variance 50, which is not a Count Discrepancy
C12_Witness ==
    /\ pc = "mem_done"
    /\ \E r \in DefectiveRows : Magnitude(r) = 498 /\ r.defect_type = "Count Discrepancy"
    /\ \E r \in DefectiveRows : Magnitude(r) = 50 /\ r.defect_type # "Count Discrepancy"
    /\ severity["Critical"] = 1
    /\ severity["High"] = 1

----------------------------------------------------------------------------
(* Spec: the order of the steps of run_sql_analysis.py *)

Succeeded(i) == <<"title and table", i>> \in log

Failed(i) == <<"Error", i>> \in log

\* C13: in a run of run_sql_analysis.py the table is loaded before any
\* query, the seven queries are attempted in the order 1..7, the connection
\* is closed only after the seventh was attempted, and the results file is
\* written once after that, holding a titled section for exactly the queries
\* that succeeded, in execution order, and nothing for a failed query.
C13_SqlRunOrder ==
    [][ /\ (pc # "sql_query" /\ pc' = "sql_query") =>
              /\ pc = "sql_load"
              /\ conn' /\ anaDb' = TableOf(csv)
              /\ qn' = 1 /\ results' = <<>>
              /\ \A j \in 1..NumQueries : ~TitlePrinted(j)'
        /\ pc = "sql_query" =>
              /\ conn /\ anaDb = TableOf(csv) /\ anaDb' = anaDb
              /\ qn \in 1..NumQueries /\ qn' = qn + 1
              /\ \A j \in 1..NumQueries : TitlePrinted(j) <=> j < qn
              /\ \A j \in 1..NumQueries : TitlePrinted(j)' <=> j <= qn
              /\ \A j \in 1..NumQueries : j = qn => Succeeded(j)' # Failed(j)'
              /\ resultsFile' = resultsFile
        /\ (conn /\ ~conn') =>
              /\ pc = "sql_close" /\ qn = NumQueries + 1
              /\ \A j \in 1..NumQueries : TitlePrinted(j)
        /\ resultsFile' # resultsFile => pc = "sql_save"
        /\ pc = "sql_save" =>
              /\ ~conn /\ qn = NumQueries + 1
              /\ pc' = "sql_summary"
              /\ resultsFile'.exists
              /\ Range(resultsFile'.rows) = {i \in 1..NumQueries : Succeeded(i)}
              /\ \A i \in Range(resultsFile'.rows) : ~Failed(i)
              /\ \A i, j \in DOMAIN resultsFile'.rows :
                    i < j => resultsFile'.rows[i] < resultsFile'.rows[j]
        /\ pc = "sql_summary" => pc' = "idle" /\ resultsFile' = resultsFile ]_vars

\* the results file of a run in which one query failed has been written:
\* six sections, none for the failed query
C13_Witness ==
    /\ pc = "sql_summary"
    /\ resultsFile.exists
    /\ Len(resultsFile.rows) = NumQueries - 1
    /\ \E i \in 1..NumQueries : Failed(i) /\ i \notin Range(resultsFile.rows)

====
